---- MODULE Spec2Model ----
(***************************************************************************)
(* A model of app/main.py of telegram-video-downloader-bot: the message    *)
(* handler handle_message run concurrently for several updates, the        *)
(* streaming downloader http_get_to_file, and the pure functions           *)
(* pick_first_url and host_matches.  Texts and URLs are sequences of       *)
(* one-character strings.                                                  *)
(***************************************************************************)
EXTENDS Integers, Sequences, FiniteSets, TLC

VARIABLES
    update,   \* update[u]: the inbound update u, [chat, text], or NoUpdate
    hm,       \* hm[u]: the frame of handle_message for update u (pc and locals)
    hist,     \* hist[u]: the outbound calls handle_message(u) has completed, in order
    fs,       \* fs[d]: the files of the existing scratch directory d
    get,      \* the frame of one http_get_to_file call
    out,      \* the file at out_path of that call: NoFile, or its length in bytes
    pf,       \* the pure functions applied to one input text
    log       \* log[u]: the messages handle_message(u) has logged, in order

vars == <<update, hm, hist, fs, get, out, pf, log>>

(***************************************************************************)
(* Configuration and constants                                             *)
(***************************************************************************)

\* MAX_SIZE_MB = int(os.environ.get("MAX_SIZE_MB", "50"))
MAX_SIZE_MB == 50

\* bytes_to_mb divides by 1024 * 1024
BytesPerMB == 1024 * 1024

\* iter_chunked(1 << 14)
CHUNK_SIZE == 16384

\* WHITELIST: the chat ids of the environment; one chat is configured here.
WHITELIST == {1001}

\* The chats that send messages: one whitelisted, one not.
ChatIds == {1001, 2002}

VIDEO_DOMAINS ==
    << <<"y","o","u","t","u","b","e",".","c","o","m">>,
       <<"m",".","y","o","u","t","u","b","e",".","c","o","m">>,
       <<"y","o","u","t","u",".","b","e">>,
       <<"y","o","u","t","u","b","e","-","n","o","c","o","o","k","i","e",".","c","o","m">>,
       <<"t","i","k","t","o","k",".","c","o","m">>,
       <<"v","m",".","t","i","k","t","o","k",".","c","o","m">>,
       <<"i","n","s","t","a","g","r","a","m",".","c","o","m">>,
       <<"c","d","n","i","n","s","t","a","g","r","a","m",".","c","o","m">>,
       <<"x",".","c","o","m">>,
       <<"t","w","i","t","t","e","r",".","c","o","m">>,
       <<"f","x","t","w","i","t","t","e","r",".","c","o","m">>,
       <<"v","x","t","w","i","t","t","e","r",".","c","o","m">>,
       <<"v","i","d","e","o",".","t","w","i","m","g",".","c","o","m">>,
       <<"f","a","c","e","b","o","o","k",".","c","o","m">>,
       <<"m",".","f","a","c","e","b","o","o","k",".","c","o","m">>,
       <<"f","b",".","w","a","t","c","h">>,
       <<"v","i","m","e","o",".","c","o","m">>,
       <<"p","l","a","y","e","r",".","v","i","m","e","o",".","c","o","m">>,
       <<"t","w","i","t","c","h",".","t","v">>,
       <<"c","l","i","p","s",".","t","w","i","t","c","h",".","t","v">>,
       <<"r","e","d","d","i","t",".","c","o","m">>,
       <<"v",".","r","e","d","d",".","i","t">>,
       <<"s","t","r","e","a","m","a","b","l","e",".","c","o","m">>,
       <<"d","a","i","l","y","m","o","t","i","o","n",".","c","o","m">>,
       <<"d","a","i",".","l","y">>,
       <<"d","r","i","v","e",".","g","o","o","g","l","e",".","c","o","m">> >>

(***************************************************************************)
(* Characters and strings                                                  *)
(***************************************************************************)

\* Python's None where a string is expected (no URL has length 1).
None == <<"<None>">>

\* The characters \s matches, among those the model's texts use.
Whitespace == {" ", "\t", "\n", "\r", "\f"}

UpperToLower ==
    ("A" :> "a") @@ ("B" :> "b") @@ ("C" :> "c") @@ ("D" :> "d") @@ ("E" :> "e") @@
    ("F" :> "f") @@ ("G" :> "g") @@ ("H" :> "h") @@ ("I" :> "i") @@ ("J" :> "j") @@
    ("K" :> "k") @@ ("L" :> "l") @@ ("M" :> "m") @@ ("N" :> "n") @@ ("O" :> "o") @@
    ("P" :> "p") @@ ("Q" :> "q") @@ ("R" :> "r") @@ ("S" :> "s") @@ ("T" :> "t") @@
    ("U" :> "u") @@ ("V" :> "v") @@ ("W" :> "w") @@ ("X" :> "x") @@ ("Y" :> "y") @@
    ("Z" :> "z")

\* str.lower() of one character, and the case folding of re.IGNORECASE
LowerChar(c) == IF c \in DOMAIN UpperToLower THEN UpperToLower[c] ELSE c

\* str.lower()
Lower(s) == [i \in 1..Len(s) |-> LowerChar(s[i])]

\* s[i:] starts with lit (Python's startswith at an offset), i counted from 1
StartsWithAt(s, i, lit) ==
    /\ i >= 1
    /\ i + Len(lit) - 1 <= Len(s)
    /\ \A k \in 1..Len(lit) : s[i + k - 1] = lit[k]

\* d in s: d occurs in s as a substring
Contains(s, d) == \E i \in 1..(Len(s) + 1) : StartsWithAt(s, i, d)

\* s.endswith(d)
EndsWith(s, d) == Len(d) <= Len(s) /\ StartsWithAt(s, Len(s) - Len(d) + 1, d)

\* The least index i >= from with s[i] in cs, or Len(s) + 1 when there is none.
RECURSIVE FindFirst(_, _, _)
FindFirst(s, from, cs) ==
    IF from > Len(s) THEN Len(s) + 1
    ELSE IF s[from] \in cs THEN from
    ELSE FindFirst(s, from + 1, cs)

\* The greatest index i <= from with s[i] in cs, or 0 when there is none.
RECURSIVE FindLast(_, _, _)
FindLast(s, from, cs) ==
    IF from < 1 THEN 0
    ELSE IF s[from] \in cs THEN from
    ELSE FindLast(s, from - 1, cs)

(***************************************************************************)
(* URL_REGEX and pick_first_url                                            *)
(***************************************************************************)

HttpLit == <<"h","t","t","p",":","/","/">>
HttpsLit == <<"h","t","t","p","s",":","/","/">>

\* The length of the match of https?:// at index i of t under re.IGNORECASE,
\* or 0 when it does not match there.
SchemeLenAt(t, i) ==
    IF StartsWithAt(Lower(t), i, HttpsLit) THEN Len(HttpsLit)
    ELSE IF StartsWithAt(Lower(t), i, HttpLit) THEN Len(HttpLit)
    ELSE 0

\* The match of URL_REGEX anchored at index i: the scheme, then the greedy
\* run [^\s]+, which needs at least one character; None when there is none.
RegexMatchAt(t, i) ==
    LET p == SchemeLenAt(t, i)
        e == FindFirst(t, i + p, Whitespace)
    IN  IF p = 0 \/ e = i + p THEN None ELSE SubSeq(t, i, e - 1)

\* URL_REGEX.search(text) from index i: the first index at which the regex matches.
RECURSIVE RegexSearch(_, _)
RegexSearch(t, i) ==
    IF i > Len(t) THEN None
    ELSE IF RegexMatchAt(t, i) # None THEN RegexMatchAt(t, i)
    ELSE RegexSearch(t, i + 1)

\* A slip: the match at the last index at which the regex matches.
RECURSIVE RegexSearchBack(_, _)
RegexSearchBack(t, i) ==
    IF i < 1 THEN None
    ELSE IF RegexMatchAt(t, i) # None THEN RegexMatchAt(t, i)
    ELSE RegexSearchBack(t, i - 1)

pick_last_url(text) ==
    IF text = <<>> THEN None ELSE RegexSearchBack(text, Len(text))

pick_first_url(text) ==
    IF text = <<>> THEN None ELSE RegexSearch(text, 1)

(***************************************************************************)
(* host_matches and the gate of handle_message                             *)
(***************************************************************************)

SchemeChars ==
    {"a","b","c","d","e","f","g","h","i","j","k","l","m","n","o","p","q","r","s","t",
     "u","v","w","x","y","z","0","1","2","3","4","5","6","7","8","9","+","-","."}

Digits == {"0","1","2","3","4","5","6","7","8","9"}

\* urlsplit(url): what follows the scheme (url[i+1:] when url[:i] is a scheme,
\* else url itself).
AfterScheme(url) ==
    LET i == FindFirst(url, 1, {":"})
    IN  IF /\ i > 1
           /\ i <= Len(url)
           /\ LowerChar(url[1]) \in SchemeChars \ (Digits \cup {"+", "-", "."})
           /\ \A k \in 1..(i - 1) : LowerChar(url[k]) \in SchemeChars
        THEN SubSeq(url, i + 1, Len(url))
        ELSE url

\* urlsplit(url).netloc: between the // that follows the scheme and the first
\* of / ? #; empty when no // follows.
Netloc(url) ==
    LET rest == AfterScheme(url)
    IN  IF StartsWithAt(rest, 1, <<"/", "/">>)
        THEN SubSeq(rest, 3, FindFirst(rest, 3, {"/", "?", "#"}) - 1)
        ELSE <<>>

\* urlparse(url).hostname or "": the netloc after its last @, up to its first
\* colon, lowercased.
Hostname(url) ==
    LET netloc == Netloc(url)
        hostinfo == SubSeq(netloc, FindLast(netloc, Len(netloc), {"@"}) + 1, Len(netloc))
    IN  Lower(SubSeq(hostinfo, 1, FindFirst(hostinfo, 1, {":"}) - 1))

\* A slip: the suffix is compared without the dot before it.
host_matches_any_suffix(url) ==
    LET host == Hostname(url)
    IN  \E n \in 1..Len(VIDEO_DOMAINS) : EndsWith(host, Lower(VIDEO_DOMAINS[n]))

host_matches(url) ==
    LET host == Hostname(url)
    IN  \E n \in 1..Len(VIDEO_DOMAINS) :
            LET d == Lower(VIDEO_DOMAINS[n])
            IN  host = d \/ EndsWith(host, <<".">> \o d)

\* s without the slashes at its end
RECURSIVE StripSlashes(_)
StripSlashes(s) ==
    IF s # <<>> /\ s[Len(s)] = "/" THEN StripSlashes(SubSeq(s, 1, Len(s) - 1)) ELSE s

\* Path(url.split("?")[0].split("#")[0]).suffix.lower(): of the url up to
\* its first ? or #, the last component of the path, from its last dot on
\* when that dot is neither its first nor its last character.
PathSuffix(url) ==
    LET base == StripSlashes(SubSeq(url, 1, FindFirst(url, 1, {"?", "#"}) - 1))
        name == SubSeq(base, FindLast(base, Len(base), {"/"}) + 1, Len(base))
        k == FindLast(name, Len(name), {"."})
    IN  IF 1 < k /\ k < Len(name) THEN Lower(SubSeq(name, k, Len(name))) ELSE <<>>

\* for domain in VIDEO_DOMAINS: if domain in url.lower(): break / else: return
DomainInUrl(url) ==
    \E n \in 1..Len(VIDEO_DOMAINS) : Contains(Lower(url), VIDEO_DOMAINS[n])

(***************************************************************************)
(* handle_message: one invocation per update, interleaved at the awaits    *)
(***************************************************************************)

\* The number of updates the transport delivers.
NumUpdates == 2

Updates == 1..NumUpdates

\* The names mkdtemp may give a scratch directory.
DirNames == 1..NumUpdates

NoTd == 0
NoPath == <<NoTd, "">>
NoUpdate == [chat |-> 0, text |-> <<>>]

\* msg.text or msg.caption or "" of the updates delivered.
MsgTexts ==
    { <<>>,
      <<"h","e","l","l","o">>,
      <<"h","t","t","p","s",":","/","/","e","x","a","m","p","l","e",".","c","o","m",
        "/","c","a","t",".","j","p","g">>,
      <<"c","h","e","c","k"," ","t","h","i","s"," ","o","u","t"," ",
        "h","t","t","p","s",":","/","/","y","o","u","t","u",".","b","e",
        "/","a","b","c","1","2","3">>,
      <<"h","t","t","p","s",":","/","/","n","o","t","y","o","u","t","u","b","e",
        ".","c","o","m","/","v",".","m","p","4">> }

\* The ceiling in bytes.
Ceiling == MAX_SIZE_MB * BytesPerMB

\* The sizes of the file the extraction backend may produce: at the ceiling
\* and one byte over it.
FileSizes == {Ceiling, Ceiling + 1}

\* Content-Type of the HEAD response; "none" when http_head returned None
\* or the header is missing.
ContentTypes == {"none", "video/mp4", "text/html"}

\* A slip: the size in whole MB (size // (1024 * 1024)) is compared.
ExceedsCeilingWholeMB(size) == (size \div BytesPerMB) > MAX_SIZE_MB

\* bytes_to_mb(size) > MAX_SIZE_MB.  The division by 2^20 is exact in a
\* double for every file size below 2^53, so the comparison is one of bytes.
ExceedsCeiling(size) == size > MAX_SIZE_MB * BytesPerMB

\* The locals of handle_message, with raised (an exception has left it)
\* and typing (how the try block of send_typing ended: "ok", "raised", or
\* "-" when send_typing has not run or the next await has been passed;
\* the program keeps no trace of it).
Frame0 ==
    [pc |-> "idle", url |-> None, td |-> NoTd, content_type |-> "none", ext |-> <<>>,
     file_path |-> NoPath, downloaded |-> FALSE, size |-> 0,
     raised |-> FALSE, typing |-> "-"]

\* handle_message has ended: by a return, or by an exception that left it.
Ended(raised) == [Frame0 EXCEPT !.pc = "done", !.raised = raised]

Ev(call, arg, res, size) == [call |-> call, arg |-> arg, res |-> res, size |-> size]

Results == {"ok", "raised"}

\* with tempfile.TemporaryDirectory() as td: entering creates the directory
EnterScope(f, d) == [x \in DOMAIN f \cup {d} |-> IF x = d THEN {} ELSE f[x]]

\* A slip: the scope is left without removing the directory.
KeepScope(f, d) == f

\* leaving the with block, by return, fall-through or exception: the
\* directory and its files are removed
ExitScope(f, d) == [x \in DOMAIN f \ {d} |-> f[x]]

\* A file is written into directory d.
WriteFile(f, d, name, size) == [f EXCEPT ![d] = @ \cup {<<name, size>>}]

\* file_path.stat().st_size
StatSize(f, path) == (CHOOSE e \in f[path[1]] : e[1] = path[2])[2]

\* A slip: the typing indicator is sent whether or not the text has a URL.
AfterWhitelistNoUrlCheck(text) ==
    [Frame0 EXCEPT !.pc = "typing", !.url = pick_first_url(text)]

\* Lines 143-155, after the whitelist check let the update through: the
\* frame at the first await (send_typing), or the ended frame.
AfterWhitelist(text) ==
    LET url == pick_first_url(text)
    IN  IF url = None THEN Ended(FALSE)
        ELSE IF ~DomainInUrl(url) THEN Ended(FALSE)
        ELSE [Frame0 EXCEPT !.pc = "typing", !.url = url]

\* A slip: reject_if_not_whitelisted returns False after the warning.
RejectReturnsFalse(u) == AfterWhitelist(update[u].text)

\* reject_if_not_whitelisted returned True: handle_message returns.
AfterReject(u) == Ended(FALSE)

\* A slip: the whitelist is looked up after the URL was extracted and the
\* gate passed.
BeginGateFirst(u) ==
    /\ hm[u].pc = "idle"
    /\ \A v \in Updates : v < u => hm[v].pc # "idle"
    /\ \E c \in ChatIds, t \in MsgTexts :
          /\ update' = [update EXCEPT ![u] = [chat |-> c, text |-> t]]
          /\ hm' = [hm EXCEPT ![u] =
                      IF AfterWhitelist(t).pc = "done" THEN Ended(FALSE)
                      ELSE IF c \notin WHITELIST THEN [Frame0 EXCEPT !.pc = "warn"]
                      ELSE AfterWhitelist(t)]
    /\ UNCHANGED <<hist, fs, get, out, pf, log>>

\* A slip: the application is built without concurrent_updates(True), so
\* that an update is handed over when the handling of the one before it
\* has ended.
BeginSequential(u) ==
    /\ hm[u].pc = "idle"
    /\ \A v \in Updates : v < u => hm[v].pc = "done"
    /\ \E c \in ChatIds, t \in MsgTexts :
          /\ update' = [update EXCEPT ![u] = [chat |-> c, text |-> t]]
          /\ hm' = [hm EXCEPT ![u] =
                      IF c \notin WHITELIST
                      THEN [Frame0 EXCEPT !.pc = "warn"]
                      ELSE AfterWhitelist(t)]
    /\ UNCHANGED <<hist, fs, get, out, pf, log>>

\* The transport hands update u to handle_message, which runs to its first
\* await: the warning reply of reject_if_not_whitelisted, or send_typing.
\* Updates are handed over in the order they arrive.
Begin(u) ==
    /\ hm[u].pc = "idle"
    /\ \A v \in Updates : v < u => hm[v].pc # "idle"
    /\ \E c \in ChatIds, t \in MsgTexts :
          /\ update' = [update EXCEPT ![u] = [chat |-> c, text |-> t]]
          /\ hm' = [hm EXCEPT ![u] =
                      IF c \notin WHITELIST
                      THEN [Frame0 EXCEPT !.pc = "warn"]
                      ELSE AfterWhitelist(t)]
    /\ UNCHANGED <<hist, fs, get, out, pf, log>>

\* A slip: the warning reply is sent outside the try block, so that its
\* exception leaves reject_if_not_whitelisted and handle_message.
WarnReturnUnguarded(u) ==
    /\ hm[u].pc = "warn"
    /\ \E res \in Results :
          /\ hist' = [hist EXCEPT ![u] = Append(@, Ev("reply_text", "NotAllowed", res, 0))]
          /\ log' = [log EXCEPT ![u] = IF res = "ok" THEN Append(@, "Rejected") ELSE @]
          /\ hm' = [hm EXCEPT ![u] = Ended(res = "raised")]
    /\ UNCHANGED <<update, fs, get, out, pf>>

\* reply_text of reject_if_not_whitelisted completes, and the rejection is
\* logged, or it raises, which skips the rest of the try block; the
\* exception is swallowed and True is returned either way.
WarnReturn(u) ==
    /\ hm[u].pc = "warn"
    /\ \E res \in Results :
          /\ hist' = [hist EXCEPT ![u] = Append(@, Ev("reply_text", "NotAllowed", res, 0))]
          /\ log' = [log EXCEPT ![u] = IF res = "ok" THEN Append(@, "Rejected") ELSE @]
    /\ hm' = [hm EXCEPT ![u] = AfterReject(u)]
    /\ UNCHANGED <<update, fs, get, out, pf>>

\* A slip: the scratch directory has a fixed name.
FixedDir(f, u) == CHOOSE d \in DirNames : \A e \in DirNames : d <= e

\* mkdtemp for handle_message(u): a name that no existing directory has.
\* The names are opaque to the program, so one free name stands for any
\* of them: the name u when it is free, else the least free one.
FreshDir(f, u) ==
    CHOOSE d \in DirNames \ DOMAIN f :
        \/ d = u
        \/ u \in DOMAIN f /\ \A e \in DirNames \ DOMAIN f : d <= e

\* A slip: send_chat_action is awaited without the try of send_typing, so
\* that its exception leaves handle_message.
TypingReturnUnguarded(u) ==
    /\ hm[u].pc = "typing"
    /\ \/ /\ fs' = EnterScope(fs, FreshDir(fs, u))
          /\ hm' = [hm EXCEPT ![u] =
                      [@ EXCEPT !.pc = "head", !.td = FreshDir(fs, u), !.typing = "ok"]]
          /\ hist' = [hist EXCEPT ![u] =
                        @ \o << Ev("send_chat_action", "-", "-", 0), Ev("mkdtemp", "-", "-", 0) >>]
       \/ /\ fs' = fs
          /\ hm' = [hm EXCEPT ![u] = Ended(TRUE)]
          /\ hist' = [hist EXCEPT ![u] = Append(@, Ev("send_chat_action", "-", "-", 0))]
    /\ UNCHANGED <<update, get, out, pf, log>>

\* send_chat_action completes or raises (swallowed by send_typing); the
\* scratch directory is created under a name no directory has, the client
\* session is opened and the HEAD request is sent.
TypingReturn(u) ==
    /\ hm[u].pc = "typing"
    /\ fs' = EnterScope(fs, FreshDir(fs, u))
    /\ \E res \in Results :
          hm' = [hm EXCEPT ![u] =
                    [@ EXCEPT !.pc = "head", !.td = FreshDir(fs, u), !.typing = res]]
    /\ hist' = [hist EXCEPT ![u] =
                  @ \o << Ev("send_chat_action", "-", "-", 0), Ev("mkdtemp", "-", "-", 0) >>]
    /\ UNCHANGED <<update, get, out, pf, log>>

\* ext for each URL the updates delivered can hold.
ExtOf == [url \in {pick_first_url(t) : t \in MsgTexts} |-> PathSuffix(url)]

\* A slip: a HEAD response of a video content type, or a video extension
\* of the path, takes the direct fetch of http_get_to_file instead of the
\* extraction backend.
HeadReturnQuickPath(u) ==
    /\ hm[u].pc = "head"
    /\ \E ct \in ContentTypes :
          LET direct == ct = "video/mp4" \/ ExtOf[hm[u].url] = <<".","m","p","4">>
              path == <<hm[u].td, "video_download">>
          IN  /\ hm' = [hm EXCEPT ![u] =
                          [@ EXCEPT !.pc = IF direct THEN "reply_video" ELSE "extract",
                                    !.typing = "-",
                                    !.content_type = IF direct THEN "none" ELSE ct,
                                    !.ext = IF direct THEN <<>> ELSE ExtOf[hm[u].url],
                                    !.file_path = path,
                                    !.downloaded = direct,
                                    !.size = IF direct THEN 1 ELSE 0]]
              /\ fs' = IF direct THEN WriteFile(fs, hm[u].td, "video_download", 1) ELSE fs
              /\ hist' = [hist EXCEPT ![u] =
                            IF direct
                            THEN @ \o << Ev("http_head", "-", "-", 0),
                                         Ev("http_get_to_file", "-", "ok", 1) >>
                            ELSE Append(@, Ev("http_head", "-", "-", 0))]
    /\ UNCHANGED <<update, get, out, pf, log>>

\* http_head returns the response or None; content_type and ext are read,
\* and the extraction backend is started in a worker thread.
HeadReturn(u) ==
    /\ hm[u].pc = "head"
    /\ \E ct \in ContentTypes :
          hm' = [hm EXCEPT ![u] =
                    [@ EXCEPT !.pc = "extract", !.content_type = ct,
                              !.ext = ExtOf[hm[u].url], !.typing = "-",
                              !.file_path = <<hm[u].td, "video_download">>,
                              !.downloaded = FALSE, !.size = 0]]
    /\ hist' = [hist EXCEPT ![u] = Append(@, Ev("http_head", "-", "-", 0))]
    /\ UNCHANGED <<update, fs, get, out, pf, log>>

\* What ytdlp_download does: it returns the path of the file it wrote,
\* returns None (no file of the prepared name), or raises.
BackendResults == {"path", "none", "raised"}

\* The scratch directory after ytdlp_download(url, tmpdir) ended with res:
\* the file of the given size, nothing, or a partial file left behind.
ytdlp_download(f, d, res, size) ==
    CASE res = "path" -> WriteFile(f, d, "media", size)
      [] res = "none" -> f
      [] res = "raised" -> WriteFile(f, d, "media.part", 1)

\* A slip: no try around the backend call, so that its exception leaves
\* handle_message.
AfterExtractUncaught(f, u, res) ==
    LET got == res = "path"
        path == IF got THEN <<hm[u].td, "media">> ELSE hm[u].file_path
        size == IF got THEN StatSize(f, path) ELSE hm[u].size
    IN  IF res = "raised" THEN Ended(TRUE)
        ELSE [hm[u] EXCEPT !.file_path = path, !.downloaded = got,
                           !.size = size, !.content_type = "none", !.ext = <<>>,
                           !.pc = IF ~got THEN "reply_dlfail"
                                  ELSE IF ExceedsCeiling(size) THEN "reply_toolarge"
                                  ELSE "reply_video"]

\* The frame after lines 174-189, the await of to_thread having ended with
\* res in file system f: at the await of the reply that follows.
\* content_type and ext are not read after lines 164-165 and the session
\* block has ended: the frame forgets them.
AfterExtract(f, u, res) ==
    LET got == res = "path"
        path == IF got THEN <<hm[u].td, "media">> ELSE hm[u].file_path
        size == IF got THEN StatSize(f, path) ELSE hm[u].size
    IN  [hm[u] EXCEPT !.file_path = path, !.downloaded = got,
                      !.size = size, !.content_type = "none", !.ext = <<>>,
                      !.pc = IF ~got THEN "reply_dlfail"
                             ELSE IF ExceedsCeiling(size) THEN "reply_toolarge"
                             ELSE "reply_video"]

\* The worker thread ends ytdlp_download and handle_message, which awaited
\* it while the other invocations ran, resumes: the session is closed,
\* the result is checked and the next reply is sent.
ExtractReturn(u) ==
    /\ hm[u].pc = "extract"
    /\ \E res \in BackendResults, s \in FileSizes :
          /\ res # "path" => s = Ceiling
          /\ LET f == ytdlp_download(fs, hm[u].td, res, s)
             IN  /\ fs' = f
                 /\ hm' = [hm EXCEPT ![u] = AfterExtract(f, u, res)]
                 /\ hist' = [hist EXCEPT ![u] =
                               Append(@, Ev("ytdlp_download", "-", res,
                                            IF res = "path"
                                            THEN StatSize(f, <<hm[u].td, "media">>)
                                            ELSE 0))]
    /\ UNCHANGED <<update, get, out, pf, log>>

\* A reply_text that is not guarded by a try: when it raises, the exception
\* leaves handle_message; the with block is left either way.
UnguardedReplyReturn(u, at, what) ==
    /\ hm[u].pc = at
    /\ \E res \in Results :
          /\ hist' = [hist EXCEPT ![u] = Append(@, Ev("reply_text", what, res, 0))]
          /\ hm' = [hm EXCEPT ![u] = Ended(res = "raised")]
    /\ fs' = ExitScope(fs, hm[u].td)
    /\ UNCHANGED <<update, get, out, pf, log>>

\* Lines 182-183
ReplyDownloadFailedReturn(u) == UnguardedReplyReturn(u, "reply_dlfail", "DownloadFailed")

\* Lines 186-189
ReplySizeExceededReturn(u) == UnguardedReplyReturn(u, "reply_toolarge", "SizeExceeded")

\* A slip: no return after the video was sent.
VideoReturnFallsThrough(u) ==
    /\ hm[u].pc = "reply_video"
    /\ \E res \in Results :
          /\ hist' = [hist EXCEPT ![u] = Append(@, Ev("reply_video", "-", res, 0))]
          /\ log' = [log EXCEPT ![u] = IF res = "raised" THEN Append(@, "FailedVideo") ELSE @]
    /\ hm' = [hm EXCEPT ![u] = [@ EXCEPT !.pc = "reply_document"]]
    /\ UNCHANGED <<update, fs, get, out, pf>>

\* Lines 192-201: reply_video completes and handle_message returns, or it
\* raises, the failure is logged and reply_document is sent.
VideoReturn(u) ==
    /\ hm[u].pc = "reply_video"
    /\ \/ /\ hist' = [hist EXCEPT ![u] = Append(@, Ev("reply_video", "-", "ok", 0))]
          /\ hm' = [hm EXCEPT ![u] = Ended(FALSE)]
          /\ fs' = ExitScope(fs, hm[u].td)
          /\ log' = log
       \/ /\ hist' = [hist EXCEPT ![u] = Append(@, Ev("reply_video", "-", "raised", 0))]
          /\ hm' = [hm EXCEPT ![u] = [@ EXCEPT !.pc = "reply_document"]]
          /\ fs' = fs
          /\ log' = [log EXCEPT ![u] = Append(@, "FailedVideo")]
    /\ UNCHANGED <<update, get, out, pf>>

\* A slip: the error reply is sent whatever reply_document did.
DocumentReturnAlwaysReports(u) ==
    /\ hm[u].pc = "reply_document"
    /\ \E res \in Results :
          hist' = [hist EXCEPT ![u] = Append(@, Ev("reply_document", "-", res, 0))]
    /\ hm' = [hm EXCEPT ![u] = [@ EXCEPT !.pc = "reply_upfail"]]
    /\ UNCHANGED <<update, fs, get, out, pf, log>>

\* Lines 204-207: reply_document completes and the with block ends, or it
\* raises and the upload-failed reply_text is sent.
DocumentReturn(u) ==
    /\ hm[u].pc = "reply_document"
    /\ \/ /\ hist' = [hist EXCEPT ![u] = Append(@, Ev("reply_document", "-", "ok", 0))]
          /\ hm' = [hm EXCEPT ![u] = Ended(FALSE)]
          /\ fs' = ExitScope(fs, hm[u].td)
       \/ /\ hist' = [hist EXCEPT ![u] = Append(@, Ev("reply_document", "-", "raised", 0))]
          /\ hm' = [hm EXCEPT ![u] = [@ EXCEPT !.pc = "reply_upfail"]]
          /\ fs' = fs
    /\ UNCHANGED <<update, get, out, pf, log>>

\* Line 207, inside the except clause and not guarded itself
ReplyUploadFailedReturn(u) == UnguardedReplyReturn(u, "reply_upfail", "UploadFailed")

GetIdle == [pc |-> "idle", size |-> 0, pending |-> <<>>, ok |-> FALSE, nshort |-> 0]
NoFile == -1
PfIdle == [phase |-> "idle", text |-> <<>>, url |-> None]

Init ==
    /\ update = [u \in Updates |-> NoUpdate]
    /\ hm = [u \in Updates |-> Frame0]
    /\ hist = [u \in Updates |-> <<>>]
    /\ fs = [d \in {} |-> {}]
    /\ get = GetIdle
    /\ out = NoFile
    /\ pf = PfIdle
    /\ log = [u \in Updates |-> <<>>]

Next ==
    \E u \in Updates :
        \/ Begin(u)
        \/ WarnReturn(u)
        \/ TypingReturn(u)
        \/ HeadReturn(u)
        \/ ExtractReturn(u)
        \/ ReplyDownloadFailedReturn(u)
        \/ ReplySizeExceededReturn(u)
        \/ VideoReturn(u)
        \/ DocumentReturn(u)
        \/ ReplyUploadFailedReturn(u)

Spec == Init /\ [][Next]_vars

(***************************************************************************)
(* http_get_to_file: one call, chunk by chunk                              *)
(***************************************************************************)

\* How many of the chunks received may be shorter than CHUNK_SIZE.
MaxShortChunks == 2

\* len(chunk): iter_chunked(1 << 14) yields at most CHUNK_SIZE bytes.
ChunkLens == {0, 1, CHUNK_SIZE}

\* The call has returned (ok, size).
GetReturn(ok, size) ==
    [pc |-> "done", size |-> size, pending |-> <<>>, ok |-> ok, nshort |-> get.nshort]

\* Lines 92-96: size = 0, the GET is sent, raise_for_status, the file is
\* opened for writing (created empty).  Any of them may raise.
GetStart ==
    /\ get.pc = "idle"
    /\ \/ /\ get' = [get EXCEPT !.pc = "iter", !.size = 0]
          /\ out' = 0
       \/ /\ get' = GetReturn(FALSE, 0)
          /\ out' = out
    /\ UNCHANGED <<update, hm, hist, fs, pf, log>>

\* Line 97: the iterator yields the next chunk, ends (the file is closed
\* and (True, size) returned), or raises.
GetReceive ==
    /\ get.pc = "iter"
    /\ \/ \E c \in ChunkLens :
             /\ c = CHUNK_SIZE \/ get.nshort < MaxShortChunks
             /\ get' = [get EXCEPT !.pc = "chunk", !.pending = Append(@, c),
                                   !.nshort = IF c = CHUNK_SIZE THEN @ ELSE @ + 1]
       \/ get' = GetReturn(TRUE, get.size)
       \/ get' = GetReturn(FALSE, get.size)
    /\ UNCHANGED <<update, hm, hist, fs, out, pf, log>>

\* A slip: the chunk is written before the size is checked.
GetChunkWriteFirst ==
    /\ get.pc = "chunk"
    /\ LET c == Head(get.pending)
           size == get.size + c
       IN  IF c = 0
           THEN get' = [get EXCEPT !.pc = "iter", !.pending = <<>>] /\ out' = out
           ELSE /\ out' = out + c
                /\ get' = IF ExceedsCeiling(size) THEN GetReturn(FALSE, size)
                          ELSE [get EXCEPT !.pc = "iter", !.size = size, !.pending = <<>>]
    /\ UNCHANGED <<update, hm, hist, fs, pf, log>>

\* Lines 98-103, the body of the loop for the chunk received: an empty
\* chunk is skipped; size grows by the chunk; over the ceiling the call
\* returns (False, size); else the chunk is written, or the write raises.
GetChunk ==
    /\ get.pc = "chunk"
    /\ LET c == Head(get.pending)
           size == get.size + c
       IN  IF c = 0
           THEN get' = [get EXCEPT !.pc = "iter", !.pending = <<>>] /\ out' = out
           ELSE IF ExceedsCeiling(size)
           THEN get' = GetReturn(FALSE, size) /\ out' = out
           ELSE \/ /\ out' = out + c
                   /\ get' = [get EXCEPT !.pc = "iter", !.size = size, !.pending = <<>>]
                \/ /\ out' = out
                   /\ get' = GetReturn(FALSE, size)
    /\ UNCHANGED <<update, hm, hist, fs, pf, log>>

NextGet == GetStart \/ GetReceive \/ GetChunk

SpecGet == Init /\ [][NextGet]_vars

(***************************************************************************)
(* pick_first_url applied to a text                                        *)
(***************************************************************************)

\* The number of pieces an input text is made of, at most.
MaxPieces == 5

Pieces ==
    { HttpLit,
      <<"H","T","T","P","S",":","/","/">>,
      <<"h","t","t","p",":","/">>,
      <<" ">>, <<"\n">>, <<"a">> }

RECURSIVE TextsUpTo(_)
TextsUpTo(n) ==
    IF n = 0 THEN {<<>>}
    ELSE LET prev == TextsUpTo(n - 1)
         IN  prev \cup {t \o q : t \in prev, q \in Pieces}

InitUrl ==
    /\ update = [u \in Updates |-> NoUpdate]
    /\ hm = [u \in Updates |-> Frame0]
    /\ hist = [u \in Updates |-> <<>>]
    /\ fs = [d \in {} |-> {}]
    /\ get = GetIdle
    /\ out = NoFile
    /\ pf \in {[phase |-> "in", text |-> t, url |-> None] : t \in TextsUpTo(MaxPieces)}
    /\ log = [u \in Updates |-> <<>>]

PickFirstUrl ==
    /\ pf.phase = "in"
    /\ pf' = [pf EXCEPT !.phase = "picked", !.url = pick_first_url(pf.text)]
    /\ UNCHANGED <<update, hm, hist, fs, get, out, log>>

NextUrl == PickFirstUrl

SpecUrl == InitUrl /\ [][NextUrl]_vars

(***************************************************************************)
(* host_matches applied to a URL                                           *)
(***************************************************************************)

\* The number of pieces an input URL is made of, at most.
MaxUrlPieces == 4

\* A scheme, two allow-list entries (one in mixed case), a label that is
\* no entry, a subdomain label, and the delimiters of path, userinfo and
\* port.
UrlPieces ==
    { HttpsLit,
      <<"y","o","u","t","u","b","e",".","c","o","m">>,
      <<"Y","o","u","T","u",".","b","e">>,
      <<"n","o","t">>,
      <<"m",".">>,
      <<"/">>, <<"@">>, <<":","8">> }

RECURSIVE UrlsUpTo(_)
UrlsUpTo(n) ==
    IF n = 0 THEN {<<>>}
    ELSE LET prev == UrlsUpTo(n - 1)
         IN  prev \cup {t \o q : t \in prev, q \in UrlPieces}

InitHost ==
    /\ update = [u \in Updates |-> NoUpdate]
    /\ hm = [u \in Updates |-> Frame0]
    /\ hist = [u \in Updates |-> <<>>]
    /\ fs = [d \in {} |-> {}]
    /\ get = GetIdle
    /\ out = NoFile
    /\ pf \in {[phase |-> "url", url |-> t, allowed |-> FALSE] : t \in UrlsUpTo(MaxUrlPieces)}
    /\ log = [u \in Updates |-> <<>>]

HostMatches ==
    /\ pf.phase = "url"
    /\ pf' = [pf EXCEPT !.phase = "matched", !.allowed = host_matches(pf.url)]
    /\ UNCHANGED <<update, hm, hist, fs, get, out, log>>

NextHost == HostMatches

SpecHost == InitHost /\ [][NextHost]_vars

(***************************************************************************)
(* reject_if_not_whitelisted, called by handle_message for any update      *)
(***************************************************************************)

\* update.effective_chat is None: cid is None.
NoChat == -1

\* update.effective_message is None.
NoMessage == None

\* Lines 140-141 with 121-130, up to the await of the warning reply or to
\* the return: cid is looked up in WHITELIST.  A chat in it: False is
\* returned and handle_message goes on.  Else the warning reply is sent;
\* without a message, update.effective_message.reply_text raises
\* AttributeError, which the except clause swallows, and True is returned.
RejectBegin(u) ==
    /\ hm[u].pc = "idle"
    /\ \A v \in Updates : v < u => hm[v].pc # "idle"
    /\ \E c \in ChatIds \cup {NoChat}, t \in MsgTexts \cup {NoMessage} :
          /\ update' = [update EXCEPT ![u] = [chat |-> c, text |-> t]]
          /\ hm' = [hm EXCEPT ![u] =
                      IF c \in WHITELIST THEN [Frame0 EXCEPT !.pc = "allowed"]
                      ELSE IF t = NoMessage THEN AfterReject(u)
                      ELSE [Frame0 EXCEPT !.pc = "warn"]]
    /\ UNCHANGED <<hist, fs, get, out, pf, log>>

NextReject == \E u \in Updates : RejectBegin(u) \/ WarnReturn(u)

SpecReject == Init /\ [][NextReject]_vars

(***************************************************************************)
(* What an invocation has done                                             *)
(***************************************************************************)

Done(u) == hm[u].pc = "done"

\* The call handle_message(u) is awaiting, as <<call, arg>>.
InFlight(u) ==
    CASE hm[u].pc = "warn" -> <<"reply_text", "NotAllowed">>
      [] hm[u].pc = "typing" -> <<"send_chat_action", "-">>
      [] hm[u].pc = "head" -> <<"http_head", "-">>
      [] hm[u].pc = "extract" -> <<"ytdlp_download", "-">>
      [] hm[u].pc = "reply_dlfail" -> <<"reply_text", "DownloadFailed">>
      [] hm[u].pc = "reply_toolarge" -> <<"reply_text", "SizeExceeded">>
      [] hm[u].pc = "reply_video" -> <<"reply_video", "-">>
      [] hm[u].pc = "reply_document" -> <<"reply_document", "-">>
      [] hm[u].pc = "reply_upfail" -> <<"reply_text", "UploadFailed">>
      [] OTHER -> <<"-", "-">>

\* Call (call, arg) has completed with result res.
Completed(u, call, arg, res) ==
    \E i \in 1..Len(hist[u]) :
        hist[u][i].call = call /\ hist[u][i].arg = arg /\ hist[u][i].res = res

\* Call (call, arg) has been made: it completed, raised, or is awaited.
Issued(u, call, arg) ==
    \/ \E i \in 1..Len(hist[u]) : hist[u][i].call = call /\ hist[u][i].arg = arg
    \/ InFlight(u) = <<call, arg>>

VideoSent(u) == Completed(u, "reply_video", "-", "ok")
DocumentSent(u) == Completed(u, "reply_document", "-", "ok")
UploadFailedReplied(u) == Completed(u, "reply_text", "UploadFailed", "ok")

\* The backend produced a file of at most, or of more than, the ceiling.
FetchedWithinCeiling(u) ==
    \E i \in 1..Len(hist[u]) :
        /\ hist[u][i].call = "ytdlp_download"
        /\ hist[u][i].res = "path"
        /\ hist[u][i].size <= MAX_SIZE_MB * BytesPerMB

FetchedOverCeiling(u) ==
    \E i \in 1..Len(hist[u]) :
        /\ hist[u][i].call = "ytdlp_download"
        /\ hist[u][i].res = "path"
        /\ hist[u][i].size > MAX_SIZE_MB * BytesPerMB

BoolToNat(b) == IF b THEN 1 ELSE 0

DeliveryOutcomes(u) ==
    BoolToNat(VideoSent(u)) + BoolToNat(DocumentSent(u)) + BoolToNat(UploadFailedReplied(u))

(***************************************************************************)
(* Claims about handle_message                                             *)
(***************************************************************************)

\* C1, as stated: for every message whose download succeeded with a size
\* within the ceiling, when handle_message has ended exactly one of video
\* sent, document sent, upload-failed reply sent has occurred.
C1_ExactlyOneOutcome ==
    \A u \in Updates :
        Done(u) /\ FetchedWithinCeiling(u) => DeliveryOutcomes(u) = 1

\* C1, amended: for such a message, when handle_message has ended exactly
\* one of these has occurred: the video reply was sent, the document reply
\* was sent, or the upload-failed reply_text was called.  That reply is
\* sent unless reply_text itself raised; then none of the three was sent,
\* reply_video and reply_document raised too, and the exception has left
\* handle_message.
C1_ExactlyOneAttempted ==
    \A u \in Updates :
        Done(u) /\ FetchedWithinCeiling(u) =>
            /\ BoolToNat(VideoSent(u)) + BoolToNat(DocumentSent(u))
                   + BoolToNat(Issued(u, "reply_text", "UploadFailed")) = 1
            /\ DeliveryOutcomes(u) <= 1
            /\ DeliveryOutcomes(u) = 0 =>
                  /\ Completed(u, "reply_video", "-", "raised")
                  /\ Completed(u, "reply_document", "-", "raised")
                  /\ Completed(u, "reply_text", "UploadFailed", "raised")
                  /\ hm[u].raised

\* One invocation ended with the document sent after the video upload
\* raised, another with all three calls raised.
C1_Witness ==
    \E u, v \in Updates :
        /\ Done(u) /\ FetchedWithinCeiling(u)
        /\ Completed(u, "reply_video", "-", "raised")
        /\ DocumentSent(u)
        /\ Done(v) /\ FetchedWithinCeiling(v)
        /\ Completed(v, "reply_text", "UploadFailed", "raised")
        /\ DeliveryOutcomes(v) = 0

\* C2: once the backend has produced a file larger than MAX_SIZE_MB MB,
\* reply_video and reply_document are never called for it, and the
\* invocation ends having sent the size-exceeded text reply.
C2_OversizeNeverDelivered ==
    \A u \in Updates :
        FetchedOverCeiling(u) =>
            /\ ~Issued(u, "reply_video", "-")
            /\ ~Issued(u, "reply_document", "-")
            /\ Issued(u, "reply_text", "SizeExceeded")
            /\ hm[u].pc \in {"reply_toolarge", "done"}

\* An invocation ended with the size-exceeded reply for an oversize file.
C2_Witness ==
    \E u \in Updates :
        /\ Done(u) /\ FetchedOverCeiling(u)
        /\ Completed(u, "reply_text", "SizeExceeded", "ok")

\* C3, as stated: a message of a whitelisted chat whose first URL fails the
\* hostname check of host_matches is a silent no-op: no call is made for it.
C3_HostnameGateSilent ==
    \A u \in Updates :
        /\ update[u].chat \in WHITELIST
        /\ pick_first_url(update[u].text) # None
        /\ ~host_matches(pick_first_url(update[u].text))
        => hist[u] = <<>> /\ hm[u].pc \in {"idle", "done"}

\* C4: for a message of a chat not in WHITELIST the only call ever made is
\* the warning reply, after which handle_message has returned: no URL is
\* extracted, no typing indicator, HEAD request, backend call or upload is
\* made and no scratch directory is created.
C4_NotWhitelistedOnlyWarns ==
    \A u \in Updates :
        update[u].chat \in ChatIds \ WHITELIST =>
            /\ hm[u].pc \in {"warn", "done"}
            /\ hm[u].url = None /\ hm[u].td = NoTd
            /\ \A i \in 1..Len(hist[u]) :
                  hist[u][i].call = "reply_text" /\ hist[u][i].arg = "NotAllowed"
            /\ Len(hist[u]) = (IF Done(u) THEN 1 ELSE 0)
            /\ ~hm[u].raised

\* A message with a URL that passes the gate, from a chat not in WHITELIST,
\* has been handled.
C4_Witness ==
    \E u \in Updates :
        /\ update[u].chat \in ChatIds \ WHITELIST
        /\ pick_first_url(update[u].text) # None
        /\ DomainInUrl(pick_first_url(update[u].text))
        /\ Done(u)
        /\ Completed(u, "reply_text", "NotAllowed", "ok")

\* C5: the scratch directories that exist are exactly those of the
\* invocations inside their with block; an invocation that has ended holds
\* none, so that when every invocation has ended none is left.
C5_ScratchRemoved ==
    /\ DOMAIN fs = {hm[u].td : u \in Updates} \ {NoTd}
    /\ \A u \in Updates :
          hm[u].pc \in {"idle", "warn", "typing", "done"} => hm[u].td = NoTd
    /\ (\A u \in Updates : Done(u)) => DOMAIN fs = {}

\* Every invocation has ended; one was left by the exception of a reply
\* inside the with block, another returned after the video was sent.
C5_Witness ==
    /\ \A u \in Updates : Done(u)
    /\ \E u, v \in Updates :
          /\ hm[u].raised /\ Issued(u, "mkdtemp", "-")
          /\ ~hm[v].raised /\ VideoSent(v)
    /\ DOMAIN fs = {}

\* C6, as stated: handle_message never ends by raising.
C6_NeverRaises == \A u \in Updates : Done(u) => ~hm[u].raised

\* C7: reply_document is called only right after reply_video raised; the
\* upload-failed reply only right after reply_video and then reply_document
\* raised; after a successful reply_video or reply_document no further
\* call is made; each of the three is called at most once.
C7_DeliveryOrder ==
    \A u \in Updates :
        LET h == hist[u]
            n == Len(h)
            seq == IF InFlight(u)[1] = "-" THEN [i \in 1..n |-> <<h[i].call, h[i].arg>>]
                   ELSE [i \in 1..(n + 1) |->
                            IF i <= n THEN <<h[i].call, h[i].arg>> ELSE InFlight(u)]
        IN  /\ \A i \in 1..Len(seq) :
                  /\ seq[i] = <<"reply_document", "-">> =>
                        /\ i > 1 /\ i - 1 <= n
                        /\ h[i - 1].call = "reply_video" /\ h[i - 1].res = "raised"
                  /\ seq[i] = <<"reply_text", "UploadFailed">> =>
                        /\ i > 2 /\ i - 1 <= n
                        /\ h[i - 1].call = "reply_document" /\ h[i - 1].res = "raised"
                        /\ h[i - 2].call = "reply_video" /\ h[i - 2].res = "raised"
                  /\ \A j \in 1..Len(seq) :
                        (seq[i] = seq[j] /\ seq[i][1] \in {"reply_video", "reply_document"})
                            => i = j
            /\ \A i \in 1..n :
                  (h[i].call \in {"reply_video", "reply_document"} /\ h[i].res = "ok")
                      => i = Len(seq) /\ Done(u)

\* Both uploads raised and the upload-failed reply was sent.
C7_Witness ==
    \E u \in Updates :
        /\ Done(u)
        /\ Completed(u, "reply_video", "-", "raised")
        /\ Completed(u, "reply_document", "-", "raised")
        /\ UploadFailedReplied(u)

(***************************************************************************)
(* Claims about http_get_to_file                                           *)
(***************************************************************************)

\* C8, as stated: when the cumulative byte count has crossed the ceiling,
\* the call has returned failure and the output file does not exist or
\* holds no data.
C8_AbortDeletesPartial ==
    get.size > MAX_SIZE_MB * BytesPerMB =>
        get.pc = "done" /\ ~get.ok /\ out \in {NoFile, 0}

\* C9: the output file never holds more than the ceiling; at most one
\* received chunk is pending; once the cumulative size has crossed the
\* ceiling the call has returned failure, so no write follows, and the
\* chunk that crossed it is not in the file.
C9_WritesWithinCeiling ==
    /\ out <= MAX_SIZE_MB * BytesPerMB
    /\ Len(get.pending) <= 1
    /\ out # NoFile => out <= get.size
    /\ get.size > MAX_SIZE_MB * BytesPerMB =>
          get.pc = "done" /\ ~get.ok /\ out < get.size

\* The file was filled to the ceiling exactly and the next chunk crossed it.
C9_Witness ==
    /\ get.pc = "done"
    /\ get.size > MAX_SIZE_MB * BytesPerMB
    /\ out = MAX_SIZE_MB * BytesPerMB

(***************************************************************************)
(* Claims about pick_first_url                                             *)
(***************************************************************************)

\* t[i..j] is http:// or https:// (the scheme compared after fold, a map
\* of characters) and then one or more characters that are not whitespace,
\* up to the next whitespace or the end of t.
UrlSpan(t, i, j, fold(_)) ==
    \E lit \in {HttpLit, HttpsLit} :
        /\ i >= 1 /\ i + Len(lit) <= j /\ j <= Len(t)
        /\ \A k \in 1..Len(lit) : fold(t[i + k - 1]) = lit[k]
        /\ \A k \in (i + Len(lit))..j : t[k] \notin Whitespace
        /\ j = Len(t) \/ t[j + 1] \in Whitespace

\* The leftmost such substring of t, None when there is none.
LeftmostUrl(t, fold(_)) ==
    IF \E i \in 1..Len(t) : \E j \in i..Len(t) : UrlSpan(t, i, j, fold)
    THEN LET i0 == CHOOSE i \in 1..Len(t) :
                      /\ \E j \in i..Len(t) : UrlSpan(t, i, j, fold)
                      /\ \A h \in 1..(i - 1) : \A j \in h..Len(t) : ~UrlSpan(t, h, j, fold)
             j0 == CHOOSE j \in i0..Len(t) : UrlSpan(t, i0, j, fold)
         IN  SubSeq(t, i0, j0)
    ELSE None

Same(c) == c

\* C10, as stated: pick_first_url returns the leftmost substring that is
\* http:// or https:// followed by one or more non-whitespace characters,
\* and None when the text has none.
C10_LeftmostUrlExactCase ==
    pf.phase = "picked" => pf.url = LeftmostUrl(pf.text, Same)

\* C10, amended: the same, the scheme compared without regard to letter
\* case (HTTP://a is a URL).
C10_LeftmostUrlAnyCase ==
    pf.phase = "picked" => pf.url = LeftmostUrl(pf.text, LowerChar)

\* The text "HTTPS://a", a line break, "http://a": the first URL, with
\* its upper-case scheme, was returned.
C10_Witness ==
    /\ pf.phase = "picked"
    /\ pf.text = <<"H","T","T","P","S",":","/","/","a","\n",
                   "h","t","t","p",":","/","/","a">>
    /\ pf.url = <<"H","T","T","P","S",":","/","/","a">>

(***************************************************************************)
(* Claims about host_matches                                               *)
(***************************************************************************)

\* h is d itself or some labels, a dot and d.
IsOrIsSubdomainOf(h, d) ==
    \/ h = d
    \/ \E k \in 1..Len(h) : h = SubSeq(h, 1, k) \o <<".">> \o d

NotYoutube == <<"n","o","t","y","o","u","t","u","b","e",".","c","o","m">>

\* C11: host_matches returns true if and only if the lowercased hostname
\* of the URL is an allow-list entry or ends with a dot and that entry; the
\* hostname notyoutube.com is rejected and so is a URL without a hostname.
C11_HostMatchesIff ==
    pf.phase = "matched" =>
        LET h == Hostname(pf.url)
        IN  /\ pf.allowed <=>
                  \E n \in 1..Len(VIDEO_DOMAINS) : IsOrIsSubdomainOf(h, VIDEO_DOMAINS[n])
            /\ h = NotYoutube => ~pf.allowed
            /\ h = <<>> => ~pf.allowed

\* https://notyoutube.com/ was rejected.
C11_Witness ==
    /\ pf.phase = "matched"
    /\ pf.url = HttpsLit \o NotYoutube \o <<"/">>
    /\ ~pf.allowed

\* Further cases the URLs cover: a subdomain and a mixed-case entry are
\* accepted; an entry in the userinfo, and a URL without //, are rejected.
C11_WitnessSubdomain ==
    /\ pf.phase = "matched"
    /\ pf.url = HttpsLit \o <<"m",".","y","o","u","t","u","b","e",".","c","o","m">>
    /\ pf.allowed

C11_WitnessMixedCase ==
    /\ pf.phase = "matched"
    /\ pf.url = HttpsLit \o <<"Y","o","u","T","u",".","b","e",":","8","/">>
    /\ pf.allowed

C11_WitnessUserinfo ==
    /\ pf.phase = "matched"
    /\ pf.url = HttpsLit \o <<"y","o","u","t","u","b","e",".","c","o","m","@","n","o","t">>
    /\ ~pf.allowed

C11_WitnessNoHostname ==
    /\ pf.phase = "matched"
    /\ pf.url = <<"y","o","u","t","u","b","e",".","c","o","m","/">>
    /\ Hostname(pf.url) = <<>>
    /\ ~pf.allowed

\* The message of u is of a chat in WHITELIST and its first URL passes the
\* gate of lines 149-153.
\* The first URL of each text the updates delivered can have.
FirstUrlOf == [t \in MsgTexts |-> pick_first_url(t)]

GateTexts == {t \in MsgTexts : FirstUrlOf[t] # None /\ DomainInUrl(FirstUrlOf[t])}

PassesGate(u) == update[u].chat \in WHITELIST /\ update[u].text \in GateTexts

\* How many times call (call, arg) has been made.
IssuedCount(u, call, arg) ==
    Cardinality({i \in 1..Len(hist[u]) : hist[u][i].call = call /\ hist[u][i].arg = arg})
        + (IF InFlight(u) = <<call, arg>> THEN 1 ELSE 0)

HoldsNoUrl(t) ==
    \A i \in 1..Len(t) : \A lit \in {HttpLit, HttpsLit} :
        ~ /\ i + Len(lit) <= Len(t)
          /\ \A k \in 1..Len(lit) : LowerChar(t[i + k - 1]) = lit[k]
          /\ t[i + Len(lit)] \notin Whitespace

NoUrlTexts == {t \in MsgTexts : HoldsNoUrl(t)}

\* C16: a message of a chat in WHITELIST whose text holds no URL (the text
\* is empty when the message has neither text nor caption) has caused no
\* call at all once it is handed over: handle_message has returned with no
\* reply, typing indicator, HEAD request, extraction or scratch directory,
\* and nothing logged.
C16_NoUrlNoAction ==
    \A u \in Updates :
        update[u].chat \in WHITELIST /\ update[u].text \in NoUrlTexts =>
            /\ hm[u] = Ended(FALSE)
            /\ hist[u] = <<>>
            /\ log[u] = <<>>
            /\ \A d \in DOMAIN fs : \E v \in Updates \ {u} : hm[v].td = d

\* A message without text and caption and a message with the text hello,
\* both of a chat in WHITELIST, have been handled.
C16_Witness ==
    \E u, v \in Updates :
        /\ update[u].chat \in WHITELIST /\ update[u].text = <<>>
        /\ update[v].chat \in WHITELIST /\ update[v].text = <<"h","e","l","l","o">>
        /\ Done(u) /\ Done(v)

\* The backend call of u has ended with res.
BackendEnded(u, res) == Completed(u, "ytdlp_download", "-", res)

\* C13: when the backend raised, or returned without a file, the exception
\* has not left the download step: handle_message goes on to the
\* could-not-download reply_text and ends there; no size-exceeded reply,
\* no reply_video and no reply_document is called, and an exception that
\* ends handle_message is that of the reply, not that of the backend.
C13_BackendFailureReplies ==
    \A u \in Updates :
        BackendEnded(u, "raised") \/ BackendEnded(u, "none") =>
            /\ Issued(u, "reply_text", "DownloadFailed")
            /\ hm[u].pc \in {"reply_dlfail", "done"}
            /\ hm[u].pc = "reply_dlfail" => ~hm[u].downloaded /\ ~hm[u].raised
            /\ hm[u].raised => Completed(u, "reply_text", "DownloadFailed", "raised")
            /\ ~Issued(u, "reply_text", "SizeExceeded")
            /\ ~Issued(u, "reply_video", "-")
            /\ ~Issued(u, "reply_document", "-")
            /\ ~Issued(u, "reply_text", "UploadFailed")

\* The backend raised for one message and returned None for another; both
\* got the could-not-download reply.
C13_Witness ==
    \E u, v \in Updates :
        /\ BackendEnded(u, "raised") /\ Done(u)
        /\ Completed(u, "reply_text", "DownloadFailed", "ok")
        /\ BackendEnded(v, "none") /\ Done(v)
        /\ Completed(v, "reply_text", "DownloadFailed", "ok")

\* A step of handle_message(u): the call it awaits ends and it runs to its
\* next await or to its end.
Resume(u) ==
    \/ WarnReturn(u) \/ TypingReturn(u) \/ HeadReturn(u) \/ ExtractReturn(u)
    \/ ReplyDownloadFailedReturn(u) \/ ReplySizeExceededReturn(u)
    \/ VideoReturn(u) \/ DocumentReturn(u) \/ ReplyUploadFailedReturn(u)

\* C14: while handle_message(u) awaits its extraction, every other
\* invocation that has not ended can take its next step, and the next
\* update in line can be handed to handle_message: none waits for the
\* extraction of u.
C14_ExtractionBlocksNobody ==
    \A u, v \in Updates :
        u # v /\ hm[u].pc = "extract" =>
            /\ hm[v].pc \notin {"idle", "done"} => ENABLED Resume(v)
            /\ (hm[v].pc = "idle" /\ \A w \in Updates : w < v => hm[w].pc # "idle")
                  => ENABLED Begin(v)

\* While the extraction of one message is awaited, a message that arrived
\* after it has been handled to its end, its video sent.
C14_Witness ==
    \E u, v \in Updates :
        /\ u < v
        /\ hm[u].pc = "extract"
        /\ Done(v) /\ VideoSent(v)

\* The texts that hold no URL, or whose first URL has none of
\* VIDEO_DOMAINS in it.
IgnorableTexts ==
    {t \in MsgTexts : HoldsNoUrl(t) \/ ~DomainInUrl(pick_first_url(t))}

\* C18: the whitelist is looked up first: a message of a chat not in
\* WHITELIST gets the warning reply (one call of it) whatever its text is,
\* also a text without URL or with a URL of an unlisted domain, for which
\* a message of a chat in WHITELIST is ignored with no call at all.
C18_AccessControlFirst ==
    \A u \in Updates :
        hm[u].pc # "idle" =>
            /\ update[u].chat \notin WHITELIST =>
                  /\ IssuedCount(u, "reply_text", "NotAllowed") = 1
                  /\ Len(hist[u]) <= 1
            /\ update[u].chat \in WHITELIST /\ update[u].text \in IgnorableTexts =>
                  hist[u] = <<>> /\ Done(u)

\* Two messages of a chat not in WHITELIST, one without URL and one with a
\* URL of an unlisted domain, have got the warning reply.
C18_Witness ==
    \E u, v \in Updates :
        /\ update[u].chat \in ChatIds \ WHITELIST /\ HoldsNoUrl(update[u].text)
        /\ Completed(u, "reply_text", "NotAllowed", "ok")
        /\ update[v].chat \in ChatIds \ WHITELIST
        /\ ~HoldsNoUrl(update[v].text) /\ ~DomainInUrl(pick_first_url(update[v].text))
        /\ Completed(v, "reply_text", "NotAllowed", "ok")

\* No two invocations hold the same scratch directory, and the path an
\* invocation reads, stats and uploads is in its own directory.
OwnScratchDirectory ==
    \A u \in Updates :
        /\ hm[u].td # NoTd => \A v \in Updates \ {u} : hm[v].td # hm[u].td
        /\ hm[u].file_path[1] \in {NoTd, hm[u].td}
        /\ hm[u].td # NoTd => hm[u].td \in DOMAIN fs

\* A step of handle_message(u), whatever its result, leaves the frame, the
\* calls made, the log and the scratch directory with its files of every
\* other invocation as they were.
StepsLeaveOthersAlone ==
    \A u \in Updates :
        hm'[u] # hm[u] =>
            \A v \in Updates \ {u} :
                /\ hm'[v] = hm[v] /\ hist'[v] = hist[v] /\ log'[v] = log[v]
                /\ hm[v].td # NoTd =>
                      hm[v].td \in DOMAIN fs' /\ fs'[hm[v].td] = fs[hm[v].td]

\* C19: under every interleaving each invocation has a scratch directory
\* of its own and works on files of that directory only, and a step of one
\* invocation, a failing one included, changes nothing of another: not its
\* frame, its calls, its directory or the files in it.
C19_Isolation == []OwnScratchDirectory /\ [][StepsLeaveOthersAlone]_vars

\* Two invocations hold a scratch directory each: the backend of one
\* raised and left a partial file, that of the other wrote its file.
C19_Witness ==
    \E u, v \in Updates :
        /\ hm[u].pc = "reply_dlfail" /\ BackendEnded(u, "raised")
        /\ fs[hm[u].td] = {<<"media.part", 1>>}
        /\ hm[v].pc = "reply_video"
        /\ fs[hm[v].td] = {<<"media", Ceiling>>}
        /\ hm[u].td # hm[v].td

\* C20: for a message that passes access control and the gate, the typing
\* indicator is called once, first of all calls: while it is awaited no
\* scratch directory is held and no other call has been made; mkdtemp
\* follows it and the extraction comes later.  Whether send_chat_action
\* completed or raised, handle_message is then at the HEAD request with
\* the same locals and no exception, and when it has ended the extraction
\* has been called.
C20_TypingOnceFirstSwallowed ==
    \A u \in Updates :
        PassesGate(u) =>
            /\ IssuedCount(u, "send_chat_action", "-") = 1
            /\ hm[u].pc = "typing" => hist[u] = <<>> /\ hm[u].td = NoTd
            /\ hm[u].pc # "typing" =>
                  /\ Len(hist[u]) >= 2
                  /\ hist[u][1].call = "send_chat_action"
                  /\ hist[u][2].call = "mkdtemp"
            /\ hm[u].pc = "head" =>
                  /\ hm[u].typing \in Results
                  /\ [hm[u] EXCEPT !.typing = "-"] =
                        [Frame0 EXCEPT !.pc = "head", !.td = hm[u].td,
                                       !.url = FirstUrlOf[update[u].text]]
                  /\ hm[u].td \in DOMAIN fs /\ fs[hm[u].td] = {}
                  /\ Len(hist[u]) = 2
            /\ hm[u].pc # "head" => hm[u].typing = "-"
            /\ Done(u) => IssuedCount(u, "ytdlp_download", "-") = 1

\* Two messages with the same text are at the HEAD request in a scratch
\* directory each: send_chat_action raised for one and completed for the
\* other.
C20_Witness ==
    \E u, v \in Updates :
        /\ PassesGate(u) /\ PassesGate(v) /\ update[u].text = update[v].text
        /\ hm[u].pc = "head" /\ hm[u].typing = "raised"
        /\ hm[v].pc = "head" /\ hm[v].typing = "ok"
        /\ [hm[u] EXCEPT !.typing = "-", !.td = NoTd] = [hm[v] EXCEPT !.typing = "-", !.td = NoTd]

(***************************************************************************)
(* Claims about reject_if_not_whitelisted                                  *)
(***************************************************************************)

\* C12: reject_if_not_whitelisted never raises.  For a chat not in
\* WHITELIST (no chat included) it returns True and handle_message
\* returns, without an exception and with no call but the warning reply,
\* also when that reply raised or there was no message to reply to.  For a
\* chat in WHITELIST it returns False and has sent nothing.
C12_RejectNeverRaises ==
    \A u \in Updates :
        hm[u].pc # "idle" =>
            /\ ~hm[u].raised
            /\ update[u].chat \notin WHITELIST =>
                  /\ hm[u].pc \in {"warn", "done"}
                  /\ Done(u) => hm[u] = Ended(FALSE)
                  /\ \A i \in 1..Len(hist[u]) :
                        hist[u][i].call = "reply_text" /\ hist[u][i].arg = "NotAllowed"
                  /\ Len(hist[u]) = (IF Done(u) /\ update[u].text # NoMessage THEN 1 ELSE 0)
            /\ update[u].chat \in WHITELIST =>
                  /\ hm[u].pc = "allowed"
                  /\ hist[u] = <<>>

\* The warning reply of one update raised and the call returned True; an
\* update without chat and without message was denied too.
C12_Witness ==
    \E u, v \in Updates :
        /\ update[u].chat \in ChatIds \ WHITELIST
        /\ Completed(u, "reply_text", "NotAllowed", "raised")
        /\ hm[u] = Ended(FALSE)
        /\ update[v].chat = NoChat /\ update[v].text = NoMessage
        /\ hm[v] = Ended(FALSE)

\* C17, as stated: every rejection is logged: once handle_message has
\* returned for a message of a chat not in WHITELIST, the rejection is in
\* the log, also when the warning reply raised.
C17_EveryRejectionLogged ==
    \A u \in Updates :
        Done(u) /\ update[u].chat \notin WHITELIST => log[u] = <<"Rejected">>

====
